---- MODULE Spec2Model ----
(***************************************************************************)
(* A model of the cellular-automaton cloud engine CAclouds3D                *)
(* (src/Clouds/CAclouds.py).                                                *)
(*                                                                          *)
(* A tensor of shape (W, D, H) is a sequence of W sequences of D sequences  *)
(* of H integers; index i of the code is index i+1 here.  The uint8 fields  *)
(* hum, act, cld keep their width: ~ and &, | are the 8-bit operations.     *)
(***************************************************************************)
EXTENDS Integers, Sequences, FiniteSets, TLC

VARIABLES width, depth, height,       \* self.width, self.depth, self.height
          x, y, z,                    \* coordinate grids (meshgrid)
          hum, act, cld,              \* the three uint8 cell fields
          f_act, hum_temp, act2,      \* helper attributes of the growth phase
          rnd_hum, rnd_act, rnd_ext,  \* the random fields of the last draw
          P_hum, P_act, P_ext,        \* probability thresholds
          raised,                     \* exception raised by the last call, or "none"
          op,                         \* name of the last operation called
          locals,                     \* validated arguments of a running init_elliptic_probabilities
          ret,                        \* value returned by the last call
          nseed, niter                \* calls of init_elliptic_probabilities, and iterations run, since the initial state

vars == <<width, depth, height, x, y, z, hum, act, cld, f_act, hum_temp, act2,
          rnd_hum, rnd_act, rnd_ext, P_hum, P_act, P_ext, raised, op, locals, ret,
          nseed, niter>>

-----------------------------------------------------------------------------
(* Program constants *)

\* dtype=torch.uint8 of hum, act, cld
Bits == 8
\* exclusive upper end of random_(0, 10001)
RandomHi == 10001
\* largest admissible probability (basis points)
PMax == 10000

-----------------------------------------------------------------------------
(* Integer helpers *)

Min(a, b) == IF a < b THEN a ELSE b
Max(a, b) == IF a > b THEN a ELSE b

RECURSIVE Pow2(_)
Pow2(n) == IF n = 0 THEN 1 ELSE 2 * Pow2(n - 1)

\* the largest value of an unsigned integer of Bits bits
UMax == Pow2(Bits) - 1

\* ~v on an unsigned integer of Bits bits
BitNot(v) == UMax - v

\* bit by bit, lowest first; no bit is left once an operand is 0
RECURSIVE BitAndN(_, _, _)
BitAndN(a, b, n) ==
    IF n = 0 \/ a = 0 \/ b = 0 THEN 0
    ELSE (a % 2) * (b % 2) + 2 * BitAndN(a \div 2, b \div 2, n - 1)

RECURSIVE BitOrN(_, _, _)
BitOrN(a, b, n) ==
    IF n = 0 THEN 0
    ELSE IF a = 0 THEN b % Pow2(n)
    ELSE IF b = 0 THEN a % Pow2(n)
    ELSE Max(a % 2, b % 2) + 2 * BitOrN(a \div 2, b \div 2, n - 1)

\* a & b and a | b on uint8
BitAnd(a, b) == BitAndN(a, b, Bits)
BitOr(a, b) == BitOrN(a, b, Bits)

\* mutant: a draw equal to the threshold fires as well
Lt_or_equal(a, b) == IF a <= b THEN 1 ELSE 0

\* a comparison yields a bool tensor; in | and & with uint8 it counts as 0/1
Lt(a, b) == IF a < b THEN 1 ELSE 0
Gt(a, b) == IF a > b THEN 1 ELSE 0

-----------------------------------------------------------------------------
(* Tensor helpers *)

\* torch.zeros((w, d, h))
Zeros(w, d, h) == [i \in 1..w |-> [j \in 1..d |-> [k \in 1..h |-> 0]]]

\* a scalar broadcast over the grid
Full(w, d, h, v) == [i \in 1..w |-> [j \in 1..d |-> [k \in 1..h |-> v]]]

\* torch.meshgrid(arange(0,w), arange(0,d), arange(0,h)): index 'ij'
MeshX(w, d, h) == [i \in 1..w |-> [j \in 1..d |-> [k \in 1..h |-> i - 1]]]
MeshY(w, d, h) == [i \in 1..w |-> [j \in 1..d |-> [k \in 1..h |-> j - 1]]]
MeshZ(w, d, h) == [i \in 1..w |-> [j \in 1..d |-> [k \in 1..h |-> k - 1]]]

\* elementwise operations
TNot(a) ==
    [i \in 1..Len(a) |-> [j \in 1..Len(a[i]) |-> [k \in 1..Len(a[i][j]) |->
        BitNot(a[i][j][k])]]]
TAnd(a, b) ==
    [i \in 1..Len(a) |-> [j \in 1..Len(a[i]) |-> [k \in 1..Len(a[i][j]) |->
        BitAnd(a[i][j][k], b[i][j][k])]]]
TOr(a, b) ==
    [i \in 1..Len(a) |-> [j \in 1..Len(a[i]) |-> [k \in 1..Len(a[i][j]) |->
        BitOr(a[i][j][k], b[i][j][k])]]]
TLt(a, b) ==
    [i \in 1..Len(a) |-> [j \in 1..Len(a[i]) |-> [k \in 1..Len(a[i][j]) |->
        Lt(a[i][j][k], b[i][j][k])]]]
TGt(a, b) ==
    [i \in 1..Len(a) |-> [j \in 1..Len(a[i]) |-> [k \in 1..Len(a[i][j]) |->
        Gt(a[i][j][k], b[i][j][k])]]]

\* Python slice bounds: a negative index counts from the end, then clamp to 0..n
SliceIdx(i, n) == IF i < 0 THEN Max(n + i, 0) ELSE Min(i, n)
\* s[a:]  and  s[:b]
SliceFrom(s, a) == SubSeq(s, SliceIdx(a, Len(s)) + 1, Len(s))
SliceTo(s, b) == SubSeq(s, 1, SliceIdx(b, Len(s)))

\* mutant: along dim 2 the cells shifted out are not brought back in
Roll2_zero_fill(t, a) ==
    [i \in 1..Len(t) |-> [j \in 1..Len(t[i]) |->
        IF a >= 0
        THEN SliceFrom(t[i][j], a) \o [n \in 1..Len(SliceTo(t[i][j], a)) |-> 0]
        ELSE [n \in 1..Len(SliceFrom(t[i][j], a)) |-> 0] \o SliceTo(t[i][j], a)]]

\* torch.cat((t[a:,:,:], t[:a,:,:]), dim=0) and the same along dim 1 and dim 2
Roll0(t, a) == SliceFrom(t, a) \o SliceTo(t, a)
Roll1(t, a) == [i \in 1..Len(t) |-> SliceFrom(t[i], a) \o SliceTo(t[i], a)]
Roll2(t, a) ==
    [i \in 1..Len(t) |-> [j \in 1..Len(t[i]) |->
        SliceFrom(t[i][j], a) \o SliceTo(t[i][j], a)]]

-----------------------------------------------------------------------------
(* The engine object *)

\* the attributes of self, packed
Self ==
    [width |-> width, depth |-> depth, height |-> height,
     x |-> x, y |-> y, z |-> z,
     hum |-> hum, act |-> act, cld |-> cld,
     f_act |-> f_act, hum_temp |-> hum_temp, act2 |-> act2,
     rnd_hum |-> rnd_hum, rnd_act |-> rnd_act, rnd_ext |-> rnd_ext,
     P_hum |-> P_hum, P_act |-> P_act, P_ext |-> P_ext]

\* the attributes of s become the next state
Commit(s) ==
    /\ width' = s.width /\ depth' = s.depth /\ height' = s.height
    /\ x' = s.x /\ y' = s.y /\ z' = s.z
    /\ hum' = s.hum /\ act' = s.act /\ cld' = s.cld
    /\ f_act' = s.f_act /\ hum_temp' = s.hum_temp /\ act2' = s.act2
    /\ rnd_hum' = s.rnd_hum /\ rnd_act' = s.rnd_act /\ rnd_ext' = s.rnd_ext
    /\ P_hum' = s.P_hum /\ P_act' = s.P_act /\ P_ext' = s.P_ext

\* torch.arange(0, n) and torch.zeros reject a negative size (RuntimeError);
\* a size of 0 gives an empty tensor
CtorRaises(w, d, h) == w < 0 \/ d < 0 \/ h < 0

\* __init__(width, depth, height): the object after construction.  act2 is
\* first assigned by __cloud_growth__: until then it is the empty sequence.
CAclouds3D(w, d, h) ==
    [width |-> w, depth |-> d, height |-> h,
     x |-> MeshX(w, d, h), y |-> MeshY(w, d, h), z |-> MeshZ(w, d, h),
     hum |-> Zeros(w, d, h), act |-> Zeros(w, d, h), cld |-> Zeros(w, d, h),
     f_act |-> Zeros(w, d, h), hum_temp |-> Zeros(w, d, h), act2 |-> << >>,
     rnd_hum |-> Zeros(w, d, h), rnd_act |-> Zeros(w, d, h),
     rnd_ext |-> Zeros(w, d, h),
     P_hum |-> Zeros(w, d, h), P_act |-> Zeros(w, d, h),
     P_ext |-> Zeros(w, d, h)]

\* what is left when __init__ raised: no tensor was built
NoObject(w, d, h) ==
    [width |-> w, depth |-> d, height |-> h,
     x |-> << >>, y |-> << >>, z |-> << >>,
     hum |-> << >>, act |-> << >>, cld |-> << >>,
     f_act |-> << >>, hum_temp |-> << >>, act2 |-> << >>,
     rnd_hum |-> << >>, rnd_act |-> << >>, rnd_ext |-> << >>,
     P_hum |-> << >>, P_act |-> << >>, P_ext |-> << >>]

NoLocals ==
    [live |-> FALSE, c_x |-> 0, c_y |-> 0, c_z |-> 0,
     f_x |-> 1, f_y |-> 1, f_z |-> 1,
     P_hum0 |-> 0, P_act0 |-> 0, P_ext0 |-> 0, radius |-> 0, overlap |-> 0]

None == [is_none |-> TRUE, val |-> << >>]
Returned(v) == [is_none |-> FALSE, val |-> v]

-----------------------------------------------------------------------------
(* init_elliptic_probabilities *)

\* mutant: a negative overlap is kept
ValidOverlap_kept(overlap) == overlap

\* lines 79-80
ValidOverlap(overlap) == IF overlap < 0 THEN 0 ELSE overlap

\* lines 82-87
Valid_c_x(s, c_x) ==
    IF c_x < 0 THEN 0 ELSE IF c_x >= s.width THEN s.width - 1 ELSE c_x

\* lines 89-94: the upper test compares with self.width
Valid_c_y(s, c_y) ==
    IF c_y < 0 THEN 0 ELSE IF c_y >= s.width THEN s.depth - 1 ELSE c_y

\* lines 96-101: the upper test compares with self.width
Valid_c_z(s, c_z) ==
    IF c_z < 0 THEN 0 ELSE IF c_z >= s.width THEN s.height - 1 ELSE c_z

\* lines 103-113
ValidStretch(f) == IF f <= 0 THEN 1 ELSE f

\* mutant: no upper clamp
ValidP_no_upper(p) == IF p < 0 THEN 0 ELSE p

\* lines 115-134
ValidP(p) == IF p < 0 THEN 0 ELSE IF p > PMax THEN PMax ELSE p

\* the arguments as they stand at line 136
Validate(s, c_x, c_y, c_z, f_x, f_y, f_z, P_hum0, P_act0, P_ext0, radius, overlap) ==
    [live |-> TRUE,
     c_x |-> Valid_c_x(s, c_x), c_y |-> Valid_c_y(s, c_y), c_z |-> Valid_c_z(s, c_z),
     f_x |-> ValidStretch(f_x), f_y |-> ValidStretch(f_y), f_z |-> ValidStretch(f_z),
     P_hum0 |-> ValidP(P_hum0), P_act0 |-> ValidP(P_act0), P_ext0 |-> ValidP(P_ext0),
     radius |-> radius, overlap |-> ValidOverlap(overlap)]

\* line 137, as the exact fraction DistNum / DistDen (DistDen > 0).  The
\* stretch factors of the model are powers of two, for which the float
\* division of the code is exact.
DistNum(s, l, i, j, k) ==
      (s.x[i][j][k] - l.c_x) * (s.x[i][j][k] - l.c_x) * l.f_y * l.f_z
    + (s.y[i][j][k] - l.c_y) * (s.y[i][j][k] - l.c_y) * l.f_x * l.f_z
    + (s.z[i][j][k] - l.c_z) * (s.z[i][j][k] - l.c_z) * l.f_x * l.f_y
DistDen(l) == l.f_x * l.f_y * l.f_z

\* line 139: distance <= radius + overlap
sel_inner(s, l) ==
    [i \in 1..s.width |-> [j \in 1..s.depth |-> [k \in 1..s.height |->
        DistNum(s, l, i, j, k) <= (l.radius + l.overlap) * DistDen(l)]]]

\* line 141: distance > radius - overlap
sel_outer(s, l) ==
    [i \in 1..s.width |-> [j \in 1..s.depth |-> [k \in 1..s.height |->
        DistNum(s, l, i, j, k) > (l.radius - l.overlap) * DistDen(l)]]]

\* mutant: the whole tensor is filled
MaskedFill_all(t, mask, v) ==
    [i \in 1..Len(t) |-> [j \in 1..Len(t[i]) |-> [k \in 1..Len(t[i][j]) |-> v]]]

\* t[mask] = v
MaskedFill(t, mask, v) ==
    [i \in 1..Len(t) |-> [j \in 1..Len(t[i]) |-> [k \in 1..Len(t[i][j]) |->
        IF mask[i][j][k] THEN v ELSE t[i][j][k]]]]

\* mutant: P_hum is written inside the inner volume only
SeedProbabilities_hum_inner(s, l) ==
    LET s1 == [s EXCEPT !.P_hum = MaskedFill(s.P_hum, sel_inner(s, l), l.P_hum0)]
        s2 == [s1 EXCEPT !.P_act = MaskedFill(s1.P_act, sel_inner(s1, l), l.P_act0)]
        s3 == [s2 EXCEPT !.P_ext = MaskedFill(s2.P_ext, sel_outer(s2, l), l.P_ext0)]
    IN s3

\* lines 143-145.  self.P_hum becomes the scalar P_hum0, which the comparison
\* of line 177 broadcasts over the grid: it is kept as the broadcast grid.
SeedProbabilities(s, l) ==
    LET s1 == [s EXCEPT !.P_hum = Full(s.width, s.depth, s.height, l.P_hum0)]
        s2 == [s1 EXCEPT !.P_act = MaskedFill(s1.P_act, sel_inner(s1, l), l.P_act0)]
        s3 == [s2 EXCEPT !.P_ext = MaskedFill(s2.P_ext, sel_outer(s2, l), l.P_ext0)]
    IN s3

init_elliptic_probabilities(s, c_x, c_y, c_z, f_x, f_y, f_z, P_hum0, P_act0, P_ext0, radius, overlap) ==
    SeedProbabilities(s, Validate(s, c_x, c_y, c_z, f_x, f_y, f_z,
                                  P_hum0, P_act0, P_ext0, radius, overlap))

-----------------------------------------------------------------------------
(* step and simulate *)

\* mutant: the shift by +2 along dim 1, which the code leaves out, is there
NeighbourTerm_symmetric(a) ==
    TOr(TOr(TOr(TOr(TOr(TOr(TOr(TOr(TOr(TOr(TOr(
        Roll0(a, -2), Roll0(a, -1)),
        Roll0(a, 1)), Roll0(a, 2)),
        Roll1(a, -2)), Roll1(a, -1)),
        Roll1(a, 1)), Roll1(a, 2)),
        Roll2(a, -2)), Roll2(a, -1)),
        Roll2(a, 1)), Roll2(a, 2))

\* lines 155-162: the eleven shifted copies of act, OR-ed
NeighbourTerm(a) ==
    TOr(TOr(TOr(TOr(TOr(TOr(TOr(TOr(TOr(TOr(
        Roll0(a, -2), Roll0(a, -1)),
        Roll0(a, 1)), Roll0(a, 2)),
        Roll1(a, -2)), Roll1(a, -1)),
        Roll1(a, 1)),
        Roll2(a, -2)), Roll2(a, -1)),
        Roll2(a, 1)), Roll2(a, 2))

\* mutant: | for & in the humidity update
cloud_growth_or_not(s) ==
    LET s1 == [s EXCEPT !.hum_temp = TOr(s.hum, TNot(s.act))]
        s2 == [s1 EXCEPT !.cld = TOr(s1.cld, s1.act)]
        s3 == [s2 EXCEPT !.f_act = NeighbourTerm(s2.act)]
        s4 == [s3 EXCEPT !.act = TAnd(TAnd(TNot(s3.act), s3.hum), s3.f_act)]
        s5 == [s4 EXCEPT !.act2 = s4.act]
        s6 == [s5 EXCEPT !.hum = s5.hum_temp]
    IN s6

\* mutant: the cloud field is updated last, from the activation already
\* overwritten
cloud_growth_cld_last(s) ==
    LET s1 == [s EXCEPT !.hum_temp = TAnd(s.hum, TNot(s.act))]
        s3 == [s1 EXCEPT !.f_act = NeighbourTerm(s1.act)]
        s4 == [s3 EXCEPT !.act = TAnd(TAnd(TNot(s3.act), s3.hum), s3.f_act)]
        s5 == [s4 EXCEPT !.act2 = s4.act]
        s6 == [s5 EXCEPT !.hum = s5.hum_temp]
        s7 == [s6 EXCEPT !.cld = TOr(s6.cld, s6.act)]
    IN s7

\* __cloud_growth__, statement by statement: each reads the attributes as the
\* statements before it left them
\* mutant: the active cells are not added to the cloud
cloud_growth_no_cloud(s) ==
    LET s1 == [s EXCEPT !.hum_temp = TAnd(s.hum, TNot(s.act))]
        s3 == [s1 EXCEPT !.f_act = NeighbourTerm(s1.act)]
        s4 == [s3 EXCEPT !.act = TAnd(TAnd(TNot(s3.act), s3.hum), s3.f_act)]
        s5 == [s4 EXCEPT !.act2 = s4.act]
        s6 == [s5 EXCEPT !.hum = s5.hum_temp]
    IN s6

cloud_growth(s) ==
    LET s1 == [s EXCEPT !.hum_temp = TAnd(s.hum, TNot(s.act))]
        s2 == [s1 EXCEPT !.cld = TOr(s1.cld, s1.act)]
        s3 == [s2 EXCEPT !.f_act = NeighbourTerm(s2.act)]
        s4 == [s3 EXCEPT !.act = TAnd(TAnd(TNot(s3.act), s3.hum), s3.f_act)]
        s5 == [s4 EXCEPT !.act2 = s4.act]
        s6 == [s5 EXCEPT !.hum = s5.hum_temp]
    IN s6

\* mutant: a cloud cell survives a draw equal to its threshold
cloud_FormationExtinction_ge(s, r) ==
    LET s1 == [s EXCEPT !.rnd_hum = r[1], !.rnd_act = r[2], !.rnd_ext = r[3]]
        s2 == [s1 EXCEPT !.hum = TOr(s1.hum, TLt(s1.rnd_hum, s1.P_hum))]
        s3 == [s2 EXCEPT !.act = TOr(s2.act, TLt(s2.rnd_act, s2.P_act))]
        s4 == [s3 EXCEPT !.cld = TAnd(s3.cld, TNot(TLt(s3.rnd_ext, s3.P_ext)))]
    IN s4

\* mutant: no cloud cell is extinguished
cloud_FormationExtinction_keep(s, r) ==
    LET s1 == [s EXCEPT !.rnd_hum = r[1], !.rnd_act = r[2], !.rnd_ext = r[3]]
        s2 == [s1 EXCEPT !.hum = TOr(s1.hum, TLt(s1.rnd_hum, s1.P_hum))]
        s3 == [s2 EXCEPT !.act = TOr(s2.act, TLt(s2.rnd_act, s2.P_act))]
    IN s3

\* mutant: extinction compares the activation draw
cloud_FormationExtinction_act_draw(s, r) ==
    LET s1 == [s EXCEPT !.rnd_hum = r[1], !.rnd_act = r[2], !.rnd_ext = r[3]]
        s2 == [s1 EXCEPT !.hum = TOr(s1.hum, TLt(s1.rnd_hum, s1.P_hum))]
        s3 == [s2 EXCEPT !.act = TOr(s2.act, TLt(s2.rnd_act, s2.P_act))]
        s4 == [s3 EXCEPT !.cld = TAnd(s3.cld, TGt(s3.rnd_act, s3.P_ext))]
    IN s4

\* __cloud_FormationExtinction__ with the three fields that random_ draws
cloud_FormationExtinction(s, r) ==
    LET s1 == [s EXCEPT !.rnd_hum = r[1], !.rnd_act = r[2], !.rnd_ext = r[3]]
        s2 == [s1 EXCEPT !.hum = TOr(s1.hum, TLt(s1.rnd_hum, s1.P_hum))]
        s3 == [s2 EXCEPT !.act = TOr(s2.act, TLt(s2.rnd_act, s2.P_act))]
        s4 == [s3 EXCEPT !.cld = TAnd(s3.cld, TGt(s3.rnd_ext, s3.P_ext))]
    IN s4

\* step()
step(s, r) == cloud_FormationExtinction(cloud_growth(s), r)

\* mutant: every iteration starts from the state simulate was called in
simulate_from_start(s, n_iterations, rs) ==
    IF n_iterations <= 0 THEN s
    ELSE cloud_FormationExtinction(cloud_growth(s), rs[n_iterations])

\* simulate(n_iterations): rs[i] holds the draws of iteration i
RECURSIVE simulate(_, _, _)
simulate(s, n_iterations, rs) ==
    IF n_iterations <= 0 THEN s
    ELSE simulate(cloud_FormationExtinction(cloud_growth(s), Head(rs)),
                  n_iterations - 1, Tail(rs))

-----------------------------------------------------------------------------
(* get_cloud_positions *)

RECURSIVE Concat(_)
Concat(ss) == IF ss = << >> THEN << >> ELSE Head(ss) \o Concat(Tail(ss))

\* t.reshape(1, -1).squeeze(): the cells in row-major order
Flatten(t) == Concat([i \in 1..Len(t) |-> Concat(t[i])])

\* mutant: the mask is ignored
MaskSelect_all(v, selection) == v

\* v[selection]
RECURSIVE MaskSelect(_, _)
MaskSelect(v, selection) ==
    IF v = << >> THEN << >>
    ELSE (IF Head(selection) THEN <<Head(v)>> ELSE << >>)
         \o MaskSelect(Tail(v), Tail(selection))

\* v.view(3, -1): three rows of Len(v) / 3 entries
View3(v) ==
    LET m == Len(v) \div 3 IN [r \in 1..3 |-> SubSeq(v, (r - 1) * m + 1, r * m)]

\* t.transpose(0, 1) of a tensor of 3 rows
Transpose(t) == [c \in 1..Len(t[1]) |-> <<t[1][c], t[2][c], t[3][c]>>]

\* view(3, -1) raises unless the number of entries is a multiple of 3
ViewRaises(v) == Len(v) % 3 # 0

\* torch.cat((x, y, z), -1) of line 212
SelectedCoordinates(s) ==
    LET flatcld == Flatten(s.cld)
        selection == [n \in 1..Len(flatcld) |-> flatcld[n] = 1]
    IN MaskSelect(Flatten(s.x), selection) \o MaskSelect(Flatten(s.y), selection)
       \o MaskSelect(Flatten(s.z), selection)

\* mutant: view(-1, 3) for view(3, -1).transpose(0, 1)
get_cloud_positions_view_rows(s) ==
    LET cat == SelectedCoordinates(s)
    IN IF ViewRaises(cat) THEN [raised |-> "RuntimeError", ret |-> None]
       ELSE [raised |-> "none",
             ret |-> Returned([n \in 1..(Len(cat) \div 3) |->
                                 SubSeq(cat, 3 * (n - 1) + 1, 3 * n)])]

get_cloud_positions(s) ==
    LET cat == SelectedCoordinates(s)
    IN IF ViewRaises(cat) THEN [raised |-> "RuntimeError", ret |-> None]
       ELSE [raised |-> "none", ret |-> Returned(Transpose(View3(cat)))]

-----------------------------------------------------------------------------
(* Bounds and input sets of the model *)

\* at most MaxSeeds calls of init_elliptic_probabilities and MaxSteps
\* iterations (of step and simulate together) in one run
MaxSeeds == 1
MaxSteps == 2
\* simulate is called with 0..MaxIter iterations
MaxIter == 2

\* values a cell of a random field takes: both ends of random_(0, 10001)
DrawVals == {0, RandomHi - 1}

\* constructor arguments: a negative size, an empty grid, one cell, two cells
DimInputs ==
    {<<-1, 1, 1>>, <<1, -1, 1>>, <<1, 1, -1>>,
     <<0, 1, 1>>, <<1, 0, 1>>, <<1, 1, 0>>, <<0, 0, 0>>,
     <<1, 1, 1>>, <<2, 1, 1>>}

\* all fields random_ can produce on a grid, restricted to DrawVals
DrawFields(w, d, h) == [1..w -> [1..d -> [1..h -> DrawVals]]]
Draws(w, d, h) == DrawFields(w, d, h) \X DrawFields(w, d, h) \X DrawFields(w, d, h)

\* arguments of init_elliptic_probabilities: centre, <<P_hum0, P_act0, P_ext0>>,
\* <<radius, overlap>>; the stretch factors are 1
CentreInputs == {<<0, 0, 0>>, <<1, 1, 1>>}
ProbInputs == {<<PMax, PMax, 0>>, <<0, 0, PMax>>}
RadiusOverlapInputs == {<<0, 0>>, <<0, 1>>}

-----------------------------------------------------------------------------
(* The state machine *)

\* the variables hold the object s and the outcome of the call that left it
Holds(s, exc, call, l, rv) ==
    /\ width = s.width /\ depth = s.depth /\ height = s.height
    /\ x = s.x /\ y = s.y /\ z = s.z
    /\ hum = s.hum /\ act = s.act /\ cld = s.cld
    /\ f_act = s.f_act /\ hum_temp = s.hum_temp /\ act2 = s.act2
    /\ rnd_hum = s.rnd_hum /\ rnd_act = s.rnd_act /\ rnd_ext = s.rnd_ext
    /\ P_hum = s.P_hum /\ P_act = s.P_act /\ P_ext = s.P_ext
    /\ raised = exc
    /\ op = call
    /\ locals = l
    /\ ret = rv
    /\ nseed = 0
    /\ niter = 0

\* the state CAclouds3D(w, d, h) leaves
Constructor(d) ==
    IF CtorRaises(d[1], d[2], d[3])
    THEN Holds(NoObject(d[1], d[2], d[3]), "RuntimeError", "__init__", NoLocals, None)
    ELSE \E s \in {CAclouds3D(d[1], d[2], d[3])} :
            Holds(s, "none", "__init__", NoLocals, None)

Init == \E d \in DimInputs : Constructor(d)

\* an object exists
Constructed == ~(op = "__init__" /\ raised # "none")

SeedWithin(c, f, P, ro, limit) ==
    /\ Constructed
    /\ nseed < limit
    /\ \E l \in {Validate(Self, c[1], c[2], c[3], f[1], f[2], f[3],
                          P[1], P[2], P[3], ro[1], ro[2])} :
       \E s \in {init_elliptic_probabilities(Self, c[1], c[2], c[3], f[1], f[2], f[3],
                                             P[1], P[2], P[3], ro[1], ro[2])} :
        /\ Commit(s)
        /\ locals' = l
    /\ raised' = "none"
    /\ op' = "init_elliptic_probabilities"
    /\ ret' = None
    /\ nseed' = nseed + 1
    /\ UNCHANGED niter

StepWithin(r, limit) ==
    /\ Constructed
    /\ niter < limit
    /\ \E s \in {step(Self, r)} : Commit(s)
    /\ raised' = "none"
    /\ op' = "step"
    /\ locals' = NoLocals
    /\ ret' = None
    /\ niter' = niter + 1
    /\ UNCHANGED nseed

InitElliptic(c, P, ro) == SeedWithin(c, <<1, 1, 1>>, P, ro, MaxSeeds)

Step(r) == StepWithin(r, MaxSteps)

Simulate(n, rs) ==
    /\ Constructed
    /\ niter + n <= MaxSteps
    /\ \E s \in {simulate(Self, n, rs)} : Commit(s)
    /\ raised' = "none"
    /\ op' = "simulate"
    /\ locals' = NoLocals
    /\ ret' = None
    /\ niter' = niter + n
    /\ UNCHANGED nseed

\* mutant: reading the positions consumes the cloud field
GetCloudPositions_consuming ==
    /\ Constructed
    /\ \E g \in {get_cloud_positions(Self)} :
        /\ raised' = g.raised
        /\ ret' = g.ret
    /\ cld' = Zeros(width, depth, height)
    /\ op' = "get_cloud_positions"
    /\ locals' = NoLocals
    /\ UNCHANGED <<width, depth, height, x, y, z, hum, act, f_act, hum_temp, act2,
                   rnd_hum, rnd_act, rnd_ext, P_hum, P_act, P_ext, nseed, niter>>

GetCloudPositions ==
    /\ Constructed
    /\ \E g \in {get_cloud_positions(Self)} :
        /\ raised' = g.raised
        /\ ret' = g.ret
    /\ op' = "get_cloud_positions"
    /\ locals' = NoLocals
    /\ UNCHANGED <<width, depth, height, x, y, z, hum, act, cld, f_act, hum_temp, act2,
                   rnd_hum, rnd_act, rnd_ext, P_hum, P_act, P_ext, nseed, niter>>

Next ==
    \/ \E c \in CentreInputs, P \in ProbInputs, ro \in RadiusOverlapInputs :
          InitElliptic(c, P, ro)
    \/ \E r \in Draws(width, depth, height) : Step(r)
    \/ \E n \in 0..MaxIter : \E rs \in [1..n -> Draws(width, depth, height)] :
          Simulate(n, rs)
    \/ GetCloudPositions

Spec == Init /\ [][Next]_vars

-----------------------------------------------------------------------------
(* The growth phase on its own: __cloud_growth__ applied to prepared fields *)

\* grids whose axes have every length from 1 to 5
GrowthGrids ==
    {<<1, 1, 1>>, <<2, 1, 1>>, <<1, 2, 1>>, <<1, 1, 2>>,
     <<3, 1, 1>>, <<1, 3, 1>>, <<1, 1, 3>>, <<4, 1, 1>>, <<1, 4, 1>>, <<1, 1, 4>>,
     <<5, 1, 1>>, <<1, 5, 1>>, <<1, 1, 5>>, <<2, 2, 1>>, <<1, 2, 2>>, <<2, 1, 2>>}

\* all fields of 0 and 1 on a grid
BinaryFields(w, d, h) == [1..w -> [1..d -> [1..h -> {0, 1}]]]

\* a fresh object whose hum, act, cld attributes hold H, A, C
Prepared(d, H, A, C) ==
    \E s \in {[CAclouds3D(d[1], d[2], d[3]) EXCEPT !.hum = H, !.act = A, !.cld = C]} :
        Holds(s, "none", "prepare", NoLocals, None)

InitGrowth ==
    \E d \in GrowthGrids :
    \E H \in BinaryFields(d[1], d[2], d[3]), A \in BinaryFields(d[1], d[2], d[3]) :
    \E C \in {Zeros(d[1], d[2], d[3]), Full(d[1], d[2], d[3], 1), H} :
        Prepared(d, H, A, C)

CloudGrowth ==
    /\ Constructed
    /\ \E s \in {cloud_growth(Self)} : Commit(s)
    /\ raised' = "none"
    /\ op' = "__cloud_growth__"
    /\ locals' = NoLocals
    /\ ret' = None
    /\ UNCHANGED <<nseed, niter>>

NextGrowth == CloudGrowth

SpecGrowth == InitGrowth /\ [][NextGrowth]_vars

-----------------------------------------------------------------------------
(* get_cloud_positions on its own, applied to a prepared cloud field *)

PositionGrids == {<<1, 1, 1>>, <<2, 2, 2>>, <<3, 2, 1>>, <<1, 2, 3>>, <<2, 1, 3>>}

InitPositions ==
    \E d \in PositionGrids : \E C \in BinaryFields(d[1], d[2], d[3]) :
        Prepared(d, Zeros(d[1], d[2], d[3]), Zeros(d[1], d[2], d[3]), C)

NextPositions == GetCloudPositions

SpecPositions == InitPositions /\ [][NextPositions]_vars

-----------------------------------------------------------------------------
(* One step from a single active cell in a humid grid, all thresholds 0 *)

\* act with the one cell p (0-based) set
OneHot(d, p) ==
    [i \in 1..d[1] |-> [j \in 1..d[2] |-> [k \in 1..d[3] |->
        IF <<i - 1, j - 1, k - 1>> = p THEN 1 ELSE 0]]]

\* grids with axes of length 1 to 5, on which offsets wrap onto the cell
\* itself (length 1 and 2) or onto each other (length 3 and 4)
LocalSmallGrids ==
    {<<1, 1, 1>>, <<2, 2, 2>>, <<1, 2, 3>>, <<3, 4, 1>>, <<4, 3, 2>>, <<2, 1, 4>>, <<5, 5, 5>>}

\* a grid and the active cell: every cell of the small grids, three cells of
\* a grid with unequal axes, and (5,5,5) of 20 x 20 x 20
LocalCases ==
    UNION {{<<d, p>> : p \in (0..(d[1] - 1)) \X (0..(d[2] - 1)) \X (0..(d[3] - 1))} :
              d \in LocalSmallGrids}
    \cup {<<<<6, 5, 7>>, p>> : p \in {<<0, 0, 0>>, <<5, 4, 6>>, <<3, 2, 3>>}}
    \cup {<<<<20, 20, 20>>, <<5, 5, 5>>>>}

\* random fields with the same draw in every cell
UniformDraws(w, d, h) ==
    {<<Full(w, d, h, v[1]), Full(w, d, h, v[2]), Full(w, d, h, v[3])>> :
        v \in DrawVals \X DrawVals \X DrawVals}

InitLocal ==
    \E dp \in LocalCases :
        Prepared(dp[1], Full(dp[1][1], dp[1][2], dp[1][3], 1), OneHot(dp[1], dp[2]),
                 Zeros(dp[1][1], dp[1][2], dp[1][3]))

LocalStep(r) == StepWithin(r, 1)

NextLocal == \E r \in UniformDraws(width, depth, height) : LocalStep(r)

SpecLocal == InitLocal /\ [][NextLocal]_vars

-----------------------------------------------------------------------------
(* The engine as cloud3D_test.py drives it: CAclouds3D(...), one
   init_elliptic_probabilities(...) with the arguments of line 9, simulate(...),
   and then, per key press, step() and get_cloud_positions().  The grid and the
   number of iterations are scaled down. *)

ScriptGrids == {<<1, 1, 1>>, <<2, 1, 1>>}

\* iterations of the set-up
SetupIter == 2

\* the draws of the set-up; the first iteration finds no cloud to extinguish,
\* and its extinction field, which the second overwrites, is the humidity field
SetupDraws(d) ==
    {rs \in [1..SetupIter -> Draws(d[1], d[2], d[3])] : rs[1][3] = rs[1][1]}

\* lines 7-10.  On these grids no distance is near radius + overlap = 20 or
\* radius - overlap = 0 but the 0 of the centre, so the stretch factor 5 does
\* not need the float division.
SetupRun(d, rs) ==
    simulate(init_elliptic_probabilities(CAclouds3D(d[1], d[2], d[3]),
                                         50, 50, 20, 5, 5, 1, 100, 1, 500, 10, 10),
             SetupIter, rs)

InitScript ==
    \E d \in ScriptGrids : \E rs \in SetupDraws(d) : \E s \in {SetupRun(d, rs)} :
        Holds(s, "none", "simulate", NoLocals, None)

ScriptStep(r) == StepWithin(r, 1)

NextScript ==
    \/ \E r \in Draws(width, depth, height) : ScriptStep(r)
    \/ GetCloudPositions

SpecScript == InitScript /\ [][NextScript]_vars

-----------------------------------------------------------------------------
(* init_elliptic_probabilities called repeatedly on a fresh engine, with
   arguments inside and outside their documented ranges *)

\* calls in a row
MaxSeedCalls == 2

SeedGrids == {<<3, 3, 1>>, <<2, 2, 2>>}

\* a centre inside the grid and one outside it on every axis
SeedCentres == {<<1, 1, 0>>, <<-1, 5, 1>>}

\* stretch factors: powers of two, and one that is not positive
SeedStretch == {<<1, 1, 1>>, <<2, 0, 4>>}

\* <<P_hum0, P_act0, P_ext0>>, below 0, above 10000 and between
SeedProbs == {<<-5, 7, 99999>>, <<99999, -1, 300>>, <<100, 10000, 0>>}

\* <<radius, overlap>>
SeedRadiusOverlap == {<<0, 0>>, <<1, 1>>, <<2, -1>>, <<0, 3>>}

InitSeed == \E d \in SeedGrids : Constructor(d)

SeedCall(c, f, P, ro) == SeedWithin(c, f, P, ro, MaxSeedCalls)

NextSeed ==
    \E c \in SeedCentres, f \in SeedStretch, P \in SeedProbs, ro \in SeedRadiusOverlap :
        SeedCall(c, f, P, ro)

SpecSeed == InitSeed /\ [][NextSeed]_vars

-----------------------------------------------------------------------------
(* One step from any fields and any thresholds at the two ends of the range *)

StepGrids == {<<1, 1, 1>>, <<2, 1, 1>>}

\* thresholds a seeding leaves in a cell: 0 or 10000
ThresholdVals == {0, PMax}

ThresholdFields(w, d, h) == [1..w -> [1..d -> [1..h -> ThresholdVals]]]

\* an engine with the given fields and probability grids
PreparedWith(d, H, A, C, Ph, Pa, Pe) ==
    \E s \in {[CAclouds3D(d[1], d[2], d[3]) EXCEPT !.hum = H, !.act = A, !.cld = C,
                                                   !.P_hum = Ph, !.P_act = Pa, !.P_ext = Pe]} :
        Holds(s, "none", "prepare", NoLocals, None)

InitStep ==
    \E d \in StepGrids :
    \E H \in BinaryFields(d[1], d[2], d[3]), A \in BinaryFields(d[1], d[2], d[3]),
       C \in BinaryFields(d[1], d[2], d[3]) :
    \E ph \in ThresholdVals :
    \E Pa \in ThresholdFields(d[1], d[2], d[3]), Pe \in ThresholdFields(d[1], d[2], d[3]) :
        PreparedWith(d, H, A, C, Full(d[1], d[2], d[3], ph), Pa, Pe)

PreparedStep(r) == StepWithin(r, 1)

NextStep == \E r \in Draws(width, depth, height) : PreparedStep(r)

SpecStep == InitStep /\ [][NextStep]_vars

-----------------------------------------------------------------------------
(* simulate and step from the same start states *)

\* the start states on two cells: humidity on both cells or on the first,
\* the first cell active or none, P_act on the first cell or nowhere
TwoCellStarts ==
    {<<H, A, Pa>> :
        H \in {Full(2, 1, 1, 1), OneHot(<<2, 1, 1>>, <<0, 0, 0>>)},
        A \in {Zeros(2, 1, 1), OneHot(<<2, 1, 1>>, <<0, 0, 0>>)},
        Pa \in {Zeros(2, 1, 1), <<<<<<PMax>>>>, <<<<0>>>>>>}}

InitSimulate ==
    \/ \E H \in BinaryFields(1, 1, 1), A \in BinaryFields(1, 1, 1), C \in BinaryFields(1, 1, 1) :
       \E ph \in ThresholdVals :
       \E Pa \in ThresholdFields(1, 1, 1), Pe \in ThresholdFields(1, 1, 1) :
            PreparedWith(<<1, 1, 1>>, H, A, C, Full(1, 1, 1, ph), Pa, Pe)
    \/ \E t \in TwoCellStarts :
            PreparedWith(<<2, 1, 1>>, t[1], t[2], Zeros(2, 1, 1), Full(2, 1, 1, PMax),
                         t[3], <<<<<<0>>>>, <<<<PMax>>>>>>)

NextSimulate ==
    \/ \E n \in 0..MaxIter : \E rs \in [1..n -> Draws(width, depth, height)] :
          Simulate(n, rs)
    \/ \E r \in Draws(width, depth, height) : Step(r)

SpecSimulate == InitSimulate /\ [][NextSimulate]_vars

-----------------------------------------------------------------------------
(* Every operation on an engine that holds cloud: a step, a seeding, a read *)

InitCloud ==
    \E d \in StepGrids :
    \E H \in BinaryFields(d[1], d[2], d[3]), A \in BinaryFields(d[1], d[2], d[3]),
       C \in BinaryFields(d[1], d[2], d[3]) :
    \E Pe \in ThresholdFields(d[1], d[2], d[3]) :
        PreparedWith(d, H, A, C, Zeros(d[1], d[2], d[3]), Zeros(d[1], d[2], d[3]), Pe)

CloudStep(r) == StepWithin(r, 1)

CloudSeed(P) == SeedWithin(<<0, 0, 0>>, <<1, 1, 1>>, P, <<0, 1>>, 1)

NextCloud ==
    \/ \E r \in Draws(width, depth, height) : CloudStep(r)
    \/ \E P \in ProbInputs : CloudSeed(P)
    \/ GetCloudPositions

SpecCloud == InitCloud /\ [][NextCloud]_vars

-----------------------------------------------------------------------------
(* Reference semantics the claims are stated in: cells by 0-based index,
   neighbours by modular index arithmetic *)

\* the cells of the current grid, 0-based
Cells == (0..(width - 1)) \X (0..(depth - 1)) \X (0..(height - 1))

At(t, c) == t[c[1] + 1][c[2] + 1][c[3] + 1]

\* the documented offsets: -2, -1, +1, +2 on axes 1 and 3; -2, -1, +1 on axis 2
Offsets ==
    {<<-2, 0, 0>>, <<-1, 0, 0>>, <<1, 0, 0>>, <<2, 0, 0>>,
     <<0, -2, 0>>, <<0, -1, 0>>, <<0, 1, 0>>,
     <<0, 0, -2>>, <<0, 0, -1>>, <<0, 0, 1>>, <<0, 0, 2>>}

\* c + o with periodic wraparound on every axis
Wrap(c, o) ==
    <<(c[1] + o[1]) % width, (c[2] + o[2]) % depth, (c[3] + o[3]) % height>>

\* some cell at a documented offset from c is set in t
neighborActivation(t, c) == \E o \in Offsets : At(t, Wrap(c, o)) = 1

Bit(b) == IF b THEN 1 ELSE 0

AllCells(t, v) == \A c \in Cells : At(t, c) = v
CountCells(t, v) == Cardinality({c \in Cells : At(t, c) = v})

-----------------------------------------------------------------------------
(* Claims *)

\* C2: the growth phase commits C = C0 OR A0, A = (NOT A0) AND H0 AND
\* neighborActivation(A0) and H = H0 AND (NOT A0), every right-hand side taken
\* on the values the fields had before the phase.
C2_GrowthReadsSnapshot ==
    [][op' = "__cloud_growth__" =>
        \A c \in Cells :
            /\ At(cld', c) = Bit(At(cld, c) = 1 \/ At(act, c) = 1)
            /\ At(act', c) = Bit(At(act, c) # 1 /\ At(hum, c) = 1
                                 /\ neighborActivation(act, c))
            /\ At(hum', c) = Bit(At(hum, c) = 1 /\ At(act, c) # 1)]_vars

\* a growth phase has run on a grid of two cells along axis 1 and left a new
\* active cell, a cloud cell and a humid cell
C2_Witness ==
    /\ op = "__cloud_growth__"
    /\ width = 2
    /\ CountCells(act, 1) = 1 /\ CountCells(cld, 1) = 1 /\ CountCells(hum, 1) = 1

\* C3: for every grid with all dimensions >= 1 the neighbour term built from
\* the slices and concatenations is, at each cell, the OR of the activation
\* field at the eleven documented offsets, wrapped around on every axis.
C3_NeighbourTermIsWrappedOr ==
    [][op' = "__cloud_growth__" =>
        \A c \in Cells : At(f_act', c) = Bit(neighborActivation(act, c))]_vars

\* a growth phase has run on a grid five cells deep with a single active cell
\* q: the neighbour term is set two cells after q and clear two cells before it
C3_Witness ==
    /\ op = "__cloud_growth__"
    /\ depth = 5
    /\ CountCells(cld, 1) = 1
    /\ \E q \in Cells :
        /\ At(cld, q) = 1
        /\ At(f_act, Wrap(q, <<0, 2, 0>>)) = 1
        /\ At(f_act, Wrap(q, <<0, -2, 0>>)) = 0

\* C1: in every state reachable from construction every cell of the
\* humidity, activation and cloud fields is 0 or 1: the 8-bit NOT of the
\* growth phase leaves no 254 or 255 behind.
C1_FieldsAreBinary ==
    Constructed =>
        \A c \in Cells : At(hum, c) \in {0, 1} /\ At(act, c) \in {0, 1}
                         /\ At(cld, c) \in {0, 1}

\* two iterations have run: the second negated a set activation cell and left
\* it cloud, with an active and a humid cell beside
C1_Witness ==
    /\ niter = 2
    /\ width = 2
    /\ \E c \in Cells : At(cld, c) = 1 /\ At(act2, c) = 0 /\ At(hum_temp, c) = 0
    /\ CountCells(act, 1) >= 1 /\ CountCells(hum, 1) >= 1

\* C7: on any grid with all dimensions >= 1, cubic or not,
\* init_elliptic_probabilities computes its distance field from a centre with
\* 0 <= c_x <= width-1, 0 <= c_y <= depth-1, 0 <= c_z <= height-1.
C7_CentreClampedPerAxis ==
    (locals.live /\ width >= 1 /\ depth >= 1 /\ height >= 1) =>
        /\ 0 <= locals.c_x /\ locals.c_x <= width - 1
        /\ 0 <= locals.c_y /\ locals.c_y <= depth - 1
        /\ 0 <= locals.c_z /\ locals.c_z <= height - 1

\* C8: construction with a width, depth or height <= 0 fails and never
\* yields an engine holding an empty grid.
C8_NoDegenerateEngine ==
    (width <= 0 \/ depth <= 0 \/ height <= 0) => ~Constructed

\* C9: get_cloud_positions returns an empty collection, and raises nothing,
\* whenever no cell of the cloud field is set.
C9_EmptyWhenNoCloud ==
    (op = "get_cloud_positions" /\ AllCells(cld, 0)) =>
        (raised = "none" /\ ret = Returned(<< >>))

\* get_cloud_positions was called on a grid of two cells right after
\* construction and returned the empty collection
C9_Witness ==
    /\ op = "get_cloud_positions"
    /\ width = 2 /\ depth = 1 /\ height = 1
    /\ nseed = 0 /\ niter = 0
    /\ AllCells(cld, 0)
    /\ ret = Returned(<< >>)

\* the cyclic distance of a and b on an axis of length n
CyclicDistance(a, b, n) == Min((a - b) % n, (b - a) % n)

\* C4 as stated: with humidity true everywhere, one active cell p and all
\* probability grids zero, after one step() the active cells are exactly the
\* cells p + o (wrapped) for the eleven documented offsets o, and none is
\* farther than 2 from p along any axis.
C4_Original ==
    [][(/\ op' = "step"
        /\ AllCells(hum, 1) /\ CountCells(act, 1) = 1
        /\ AllCells(P_hum, 0) /\ AllCells(P_act, 0) /\ AllCells(P_ext, 0)) =>
        LET p == CHOOSE c \in Cells : At(act, c) = 1
        IN \A c \in Cells :
            /\ At(act', c) = 1 <=> \E o \in Offsets : c = Wrap(p, o)
            /\ At(act', c) = 1 =>
                /\ CyclicDistance(c[1], p[1], width) <= 2
                /\ CyclicDistance(c[2], p[2], depth) <= 2
                /\ CyclicDistance(c[3], p[3], height) <= 2]_vars

\* the offset from a cell back to the cell that samples it
Mirror(o) == <<0 - o[1], 0 - o[2], 0 - o[3]>>

\* C4 as amended: with humidity true everywhere, one active cell p and all
\* probability grids zero, after one step() the active cells are exactly the
\* cells other than p that sample p, that is p - o (wrapped) for the eleven
\* documented offsets o: -2, -1, +1, +2 from p on axes 1 and 3 and -1, +1, +2
\* on axis 2.  p itself is inactive, also where an offset wraps onto it (an
\* axis of length 1 or 2); no active cell is farther than 2 from p along any
\* axis.
C4_GrowthIsLocal ==
    [][(/\ op' = "step"
        /\ AllCells(hum, 1) /\ CountCells(act, 1) = 1
        /\ AllCells(P_hum, 0) /\ AllCells(P_act, 0) /\ AllCells(P_ext, 0)) =>
        LET p == CHOOSE c \in Cells : At(act, c) = 1
        IN \A c \in Cells :
            /\ At(act', c) = 1 <=> (c # p /\ \E o \in Offsets : c = Wrap(p, Mirror(o)))
            /\ At(act', c) = 1 =>
                /\ CyclicDistance(c[1], p[1], width) <= 2
                /\ CyclicDistance(c[2], p[2], depth) <= 2
                /\ CyclicDistance(c[3], p[3], height) <= 2]_vars

\* the step has run on the 20 x 20 x 20 grid from the active cell (5,5,5):
\* eleven cells are active, (5,7,5) among them and (5,3,5) not
C4_Witness ==
    /\ op = "step"
    /\ width = 20 /\ depth = 20 /\ height = 20
    /\ At(hum, <<5, 5, 5>>) = 0 /\ CountCells(hum, 0) = 1
    /\ CountCells(act, 1) = 11
    /\ At(act, <<5, 7, 5>>) = 1 /\ At(act, <<5, 3, 5>>) = 0

\* C5 as stated: with P_ext = 10000 at every cell and no active cell, one
\* step() leaves the cloud field unchanged.
C5_Original ==
    [][(op' = "step" /\ AllCells(P_ext, PMax) /\ AllCells(act, 0)) =>
        cld' = cld]_vars

\* C5 as amended: with P_ext = 10000 at every cell and no active cell, one
\* step() leaves no cloud cell, whatever the cloud field and the draws were.
C5_ExtinctionIsTotal ==
    [][(op' = "step" /\ AllCells(P_ext, PMax) /\ AllCells(act, 0)) =>
        AllCells(cld', 0)]_vars

\* a step has run on two cells with P_ext = 10000, no cell active before it
\* (the neighbour term is 0) and the largest draws: no cloud is left
C5_Witness ==
    /\ op = "step"
    /\ width = 2
    /\ AllCells(P_ext, PMax)
    /\ AllCells(f_act, 0) /\ AllCells(act2, 0)
    /\ AllCells(rnd_ext, RandomHi - 1)
    /\ AllCells(cld, 0)

\* C6 as stated: with P_ext = 0 at every cell and the cloud field all true,
\* after one step() the cloud cells are exactly those whose draw R_ext is 0.
C6_Original ==
    [][(op' = "step" /\ AllCells(P_ext, 0) /\ AllCells(cld, 1)) =>
        \A c \in Cells : At(cld', c) = 1 <=> At(rnd_ext', c) = 0]_vars

\* C6 as amended: with P_ext = 0 at every cell and the cloud field all true,
\* after one step() the cloud cells are exactly those whose draw R_ext is
\* greater than 0; every cell whose draw is 0 has been cleared.
C6_SurvivorsDrawAboveZero ==
    [][(op' = "step" /\ AllCells(P_ext, 0) /\ AllCells(cld, 1)) =>
        \A c \in Cells : At(cld', c) = 1 <=> At(rnd_ext', c) > 0]_vars

\* a step has run on two cells with P_ext = 0: the cell that drew 0 is
\* cleared, the cell that drew more is cloud
C6_Witness ==
    /\ op = "step"
    /\ width = 2
    /\ AllCells(P_ext, 0)
    /\ \E c \in Cells : At(rnd_ext, c) = 0 /\ At(cld, c) = 0
    /\ \E c \in Cells : At(rnd_ext, c) > 0 /\ At(cld, c) = 1

\* a < b in row-major order
RowMajorLess(a, b) ==
    \/ a[1] < b[1]
    \/ a[1] = b[1] /\ a[2] < b[2]
    \/ a[1] = b[1] /\ a[2] = b[2] /\ a[3] < b[3]

\* C10: when some cloud cell is set, get_cloud_positions returns one triple
\* <<i, j, k>> for each cell with C[i,j,k] = 1 and no other, in row-major
\* order; on 2 x 2 x 2 with (0,0,0) and (1,1,1) set it returns these two.
C10_PositionsAreTheCloudCells ==
    (op = "get_cloud_positions" /\ ~AllCells(cld, 0)) =>
        /\ raised = "none"
        /\ ~ret.is_none
        /\ Len(ret.val) = CountCells(cld, 1)
        /\ \A n \in 1..Len(ret.val) : ret.val[n] \in Cells /\ At(cld, ret.val[n]) = 1
        /\ \A n \in 1..(Len(ret.val) - 1) : RowMajorLess(ret.val[n], ret.val[n + 1])
        /\ (cld = <<<<<<1, 0>>, <<0, 0>>>>, <<<<0, 0>>, <<0, 1>>>>>>
                => ret.val = <<<<0, 0, 0>>, <<1, 1, 1>>>>)

\* get_cloud_positions has returned for the 2 x 2 x 2 grid with (0,0,0) and
\* (1,1,1) set
C10_Witness ==
    /\ op = "get_cloud_positions"
    /\ cld = <<<<<<1, 0>>, <<0, 0>>>>, <<<<0, 0>>, <<0, 1>>>>>>
    /\ ret = Returned(<<<<0, 0, 0>>, <<1, 1, 1>>>>)

\* the normalised squared distance of cell c to the centre of l is at most b
DistanceAtMost(c, l, b) ==
      (c[1] - l.c_x) * (c[1] - l.c_x) * l.f_y * l.f_z
    + (c[2] - l.c_y) * (c[2] - l.c_y) * l.f_x * l.f_z
    + (c[3] - l.c_z) * (c[3] - l.c_z) * l.f_x * l.f_y
        <= b * l.f_x * l.f_y * l.f_z

\* C11: after every init_elliptic_probabilities call, P_hum at every cell
\* equals the clamped pHum of that call, whatever the call's centre, stretch,
\* radius and overlap and whatever earlier calls left.
C11_HumidityIsGlobal ==
    [][op' = "init_elliptic_probabilities" =>
        \A c \in Cells : At(P_hum', c) = locals'.P_hum0]_vars

\* two calls have been made: P_hum is 100 at every cell, P_act still holds
\* at some cell the 7 of the first call (whose pHum was -5) and the inner
\* volume of the second call leaves cells out
C11_Witness ==
    /\ op = "init_elliptic_probabilities"
    /\ nseed = 2
    /\ locals.P_hum0 = 100
    /\ AllCells(P_hum, 100)
    /\ \E c \in Cells : At(P_act, c) = 7 /\ ~DistanceAtMost(c, locals, locals.radius + locals.overlap)

\* C12: an init_elliptic_probabilities call sets P_act to the clamped pAct at
\* the cells with D <= radius + overlap and P_ext to the clamped pExt at the
\* cells with D > radius - overlap (D the normalised squared distance to the
\* effective centre); every other cell of P_act and of P_ext keeps its value,
\* which is 0 when no call has written it.
C12_MasksFrameTheWrites ==
    [][op' = "init_elliptic_probabilities" =>
        \A c \in Cells :
            LET inner == DistanceAtMost(c, locals', locals'.radius + locals'.overlap)
                outer == ~DistanceAtMost(c, locals', locals'.radius - locals'.overlap)
            IN /\ At(P_act', c) = IF inner THEN locals'.P_act0 ELSE At(P_act, c)
               /\ At(P_ext', c) = IF outer THEN locals'.P_ext0 ELSE At(P_ext, c)
               /\ (nseed = 0 /\ ~inner) => At(P_act', c) = 0
               /\ (nseed = 0 /\ ~outer) => At(P_ext', c) = 0]_vars

\* after two calls: a cell inside the inner volume holds this call's pAct, a
\* cell outside it that no call wrote holds 0, and a cell outside the outer
\* volume keeps the pExt of the call before
C12_Witness ==
    /\ op = "init_elliptic_probabilities"
    /\ nseed = 2
    /\ locals.P_act0 = PMax /\ locals.P_ext0 = 0
    /\ \E c \in Cells : /\ DistanceAtMost(c, locals, locals.radius + locals.overlap)
                        /\ At(P_act, c) = PMax
    /\ \E c \in Cells : /\ ~DistanceAtMost(c, locals, locals.radius + locals.overlap)
                        /\ At(P_act, c) = 0
    /\ \E c \in Cells : /\ DistanceAtMost(c, locals, locals.radius - locals.overlap)
                        /\ At(P_ext, c) = 300

\* every entry of t lies in [0, 10000]
InRange(t) == \A c \in Cells : At(t, c) >= 0 /\ At(t, c) <= PMax

\* C13: whatever integer pHum, pAct, pExt the calls were given, every entry of
\* P_hum, P_act and P_ext lies in [0, 10000]; a call with pHum below 0 leaves
\* P_hum = 0 at every cell and a call with pHum above 10000 leaves 10000.
C13_ProbabilitiesAreClamped ==
    /\ Constructed => InRange(P_hum) /\ InRange(P_act) /\ InRange(P_ext)
    /\ (Constructed /\ nseed < MaxSeedCalls) =>
        \A c \in SeedCentres, f \in SeedStretch, P \in SeedProbs, ro \in SeedRadiusOverlap :
            LET s == init_elliptic_probabilities(Self, c[1], c[2], c[3], f[1], f[2], f[3],
                                                 P[1], P[2], P[3], ro[1], ro[2])
            IN /\ P[1] < 0 => s.P_hum = Full(width, depth, height, 0)
               /\ P[1] > PMax => s.P_hum = Full(width, depth, height, PMax)

\* a call given pHum = -5 and pExt = 99999 after a call given pHum = 99999:
\* P_hum is 0 everywhere and P_ext holds 10000
C13_Witness ==
    /\ op = "init_elliptic_probabilities"
    /\ nseed = 2
    /\ locals.P_hum0 = 0 /\ locals.P_ext0 = PMax /\ locals.P_act0 = 7
    /\ AllCells(P_hum, 0)
    /\ \E c \in Cells : At(P_ext, c) = PMax
    /\ \E c \in Cells : At(P_act, c) = 0

\* C20: in every init_elliptic_probabilities call the inner mask
\* D <= radius + overlap and the outer mask D > radius - overlap cover the
\* grid, so every cell holds the call's pAct or the call's pExt afterwards;
\* when the effective overlap is 0 the masks are disjoint, and a cell is in
\* exactly one of them.
C20_MasksCoverTheGrid ==
    [][op' = "init_elliptic_probabilities" =>
        LET l == locals'
            inner == sel_inner(Self, l)
            outer == sel_outer(Self, l)
        IN /\ l.overlap >= 0
           /\ \A c \in Cells :
                /\ At(inner, c) \/ At(outer, c)
                /\ At(P_act', c) = l.P_act0 \/ At(P_ext', c) = l.P_ext0
                /\ l.overlap = 0 => ~(At(inner, c) /\ At(outer, c))]_vars

\* a call given radius 2 and overlap -1 on the 3 x 3 x 1 grid: the overlap is
\* 0, a cell at distance 2 from the centre gets pAct and not pExt, a cell
\* farther away gets pExt and not pAct
C20_Witness ==
    /\ op = "init_elliptic_probabilities"
    /\ nseed = 1
    /\ width = 3
    /\ locals.radius = 2 /\ locals.overlap = 0
    /\ locals.P_act0 = PMax /\ locals.P_ext0 = 0 /\ locals.f_x = 1
    /\ \E c \in Cells : /\ DistanceAtMost(c, locals, 2) /\ ~DistanceAtMost(c, locals, 1)
                        /\ At(P_act, c) = PMax /\ At(P_ext, c) = 0
    /\ \E c \in Cells : /\ ~DistanceAtMost(c, locals, 2)
                        /\ At(P_act, c) = 0 /\ At(P_ext, c) = 0

\* C14: with the three probability grids zero, whatever the fields and the
\* draws, the humid cells after a step() are among the humid cells before it,
\* the two sets differ only at cells that were active before the step, and so
\* the number of humid cells does not increase.
C14_HumidityDoesNotIncrease ==
    [][(/\ op' = "step"
        /\ AllCells(P_hum, 0) /\ AllCells(P_act, 0) /\ AllCells(P_ext, 0)) =>
        /\ \A c \in Cells :
            /\ At(hum', c) = 1 => At(hum, c) = 1
            /\ At(hum', c) # At(hum, c) => At(act, c) = 1
        /\ CountCells(hum', 1) <= CountCells(hum, 1)]_vars

\* a step with zero thresholds and all draws 0 has run on two cells: one cell
\* is humid, the other is cloud and not humid
C14_Witness ==
    /\ op = "step"
    /\ width = 2
    /\ AllCells(P_hum, 0) /\ AllCells(P_act, 0) /\ AllCells(P_ext, 0)
    /\ AllCells(rnd_hum, 0) /\ AllCells(rnd_ext, RandomHi - 1)
    /\ \E c \in Cells : At(hum, c) = 1 /\ At(cld, c) = 0
    /\ \E c \in Cells : At(hum, c) = 0 /\ At(cld, c) = 1

\* C18 as stated: whatever the probability grids and the draws, a cell that
\* is active before a step() is cloud or inactive after it.
C18_Original ==
    [][op' = "step" =>
        \A c \in Cells :
            At(act, c) = 1 => (At(cld', c) = 1 \/ At(act', c) = 0)]_vars

\* C18 as amended: a cell that is active before a step() is cloud after it
\* unless its extinction draw is at most P_ext, and inactive after it unless
\* its activation draw is below P_act; it is cloud or inactive except when
\* both draws fire, and then it is active and not cloud.
C18_ActivationIsTransient ==
    [][op' = "step" =>
        \A c \in Cells :
            At(act, c) = 1 =>
                /\ At(cld', c) = Bit(At(rnd_ext', c) > At(P_ext, c))
                /\ At(act', c) = Bit(At(rnd_act', c) < At(P_act, c))
                /\ (At(cld', c) = 1 \/ At(act', c) = 0
                    \/ (At(rnd_ext', c) <= At(P_ext, c) /\ At(rnd_act', c) < At(P_act, c)))]_vars

\* a step has run on the one-cell grid whose cell was active (the neighbour
\* term, which there is the activation before the step, is 1): growth made it
\* inactive, both draws fired, and it is active again and not cloud
C18_Witness ==
    /\ op = "step"
    /\ width = 1
    /\ AllCells(f_act, 1) /\ AllCells(act2, 0)
    /\ AllCells(rnd_act, 0) /\ AllCells(P_act, PMax)
    /\ AllCells(rnd_ext, 0) /\ AllCells(P_ext, PMax)
    /\ AllCells(act, 1) /\ AllCells(cld, 0)

\* C19: the ends of the range are exact for every cell and every draw in
\* [0, 10000].  A threshold of 0 never fires: with P_hum = 0 the cell is humid
\* after the step only if growth left it humid, with P_act = 0 it is active
\* only if growth ignited it, with P_ext = 0 a cell that was cloud or active
\* is cloud.  A threshold of 10000 always fires: with P_hum = 10000 the cell is
\* humid after the step, with P_act = 10000 it is active, with P_ext = 10000
\* it is not cloud.
C19_EndpointsAreExact ==
    [][op' = "step" =>
        \A c \in Cells :
            /\ At(P_hum, c) = 0 => At(hum', c) = At(hum_temp', c)
            /\ At(P_act, c) = 0 => At(act', c) = At(act2', c)
            /\ At(P_ext, c) = 0 => At(cld', c) = Bit(At(cld, c) = 1 \/ At(act, c) = 1)
            /\ At(P_hum, c) = PMax => At(hum', c) = 1
            /\ At(P_act, c) = PMax => At(act', c) = 1
            /\ At(P_ext, c) = PMax => At(cld', c) = 0]_vars

\* C15: get_cloud_positions leaves humidity, activation, cloud, the
\* probability grids and the coordinate grids as they are, and a call that
\* follows another call directly returns what that call returned.
C15_PositionsHaveNoSideEffect ==
    [][op' = "get_cloud_positions" =>
        /\ UNCHANGED <<hum, act, cld, P_hum, P_act, P_ext, x, y, z, width, depth, height>>
        /\ ret' = get_cloud_positions(Self).ret
        /\ raised' = get_cloud_positions(Self).raised
        /\ op = "get_cloud_positions" => (ret' = ret /\ raised' = raised)]_vars

\* get_cloud_positions has returned the two cloud cells of the two-cell grid
\* after the set-up and one step(); the thresholds of the seeding are in
\* place and the next call is possible
C15_Witness ==
    /\ op = "get_cloud_positions"
    /\ width = 2
    /\ AllCells(cld, 1) /\ AllCells(hum, 1)
    /\ AllCells(P_hum, 100) /\ AllCells(P_act, 1)
    /\ At(P_ext, <<0, 0, 0>>) = 500 /\ At(P_ext, <<1, 0, 0>>) = 0
    /\ niter = 1
    /\ ret = Returned(<<<<0, 0, 0>>, <<1, 0, 0>>>>)
    /\ ENABLED GetCloudPositions

\* n consecutive step() calls, call i with the draws rs[i]
RECURSIVE StepN(_, _, _)
StepN(s, n, rs) ==
    IF n = 0 THEN s ELSE StepN(step(s, Head(rs)), n - 1, Tail(rs))

\* C16: from every start state, for every n and all draws, simulate(n)
\* reaches the state that n consecutive step() calls reach with the same
\* draws, and simulate(0) changes nothing.
C16_SimulateIsRepeatedStep ==
    (Constructed /\ niter = 0) =>
        /\ simulate(Self, 0, << >>) = Self
        /\ \A n \in 0..MaxIter : \A rs \in [1..n -> Draws(width, depth, height)] :
            simulate(Self, n, rs) = StepN(Self, n, rs)

\* simulate(2) has run on two cells with no spontaneous ignition: the first
\* cell is cloud, the second, which the first ignited in iteration 1, lost its
\* humidity in iteration 2 and its cloud to the extinction draw
C16_Witness ==
    /\ op = "simulate"
    /\ niter = 2
    /\ width = 2
    /\ AllCells(P_act, 0)
    /\ AllCells(rnd_hum, RandomHi - 1) /\ AllCells(rnd_ext, RandomHi - 1)
    /\ At(cld, <<0, 0, 0>>) = 1 /\ At(cld, <<1, 0, 0>>) = 0
    /\ At(hum, <<1, 0, 0>>) = 0 /\ At(hum_temp, <<1, 0, 0>>) = 0
    /\ At(f_act, <<0, 0, 0>>) = 1

\* C17: across a step() a cell that is cloud afterwards was cloud or active
\* before, and a cell that was cloud before and is not cloud afterwards drew
\* R_ext <= P_ext; init_elliptic_probabilities and get_cloud_positions leave
\* the cloud field as it is.
C17_CloudGrowsAndShrinksByRule ==
    [][/\ op' = "step" =>
            \A c \in Cells :
                /\ At(cld', c) = 1 => (At(cld, c) = 1 \/ At(act, c) = 1)
                /\ (At(cld, c) = 1 /\ At(cld', c) = 0) => At(rnd_ext', c) <= At(P_ext, c)
       /\ op' \in {"init_elliptic_probabilities", "get_cloud_positions"} => cld' = cld]_vars

\* a step has run on two cells after a seeding that set P_ext = 0: one cell
\* drew 0 and is not cloud, the other drew more and is cloud
C17_Witness ==
    /\ op = "step"
    /\ width = 2
    /\ nseed = 1
    /\ AllCells(P_ext, 0)
    /\ AllCells(f_act, 0)
    /\ \E c \in Cells : At(rnd_ext, c) = 0 /\ At(cld, c) = 0
    /\ \E c \in Cells : At(rnd_ext, c) = RandomHi - 1 /\ At(cld, c) = 1

====
